---- MODULE Spec2Model ----
(***************************************************************************)
(* Model of scripts/import_meta_csv.py: the incremental loader of          *)
(* advertising reports into a star schema (seven dimension tables and      *)
(* fact_Metrics) over one pyodbc connection opened with autocommit=False.  *)
(*                                                                         *)
(* Tables are sequences of rows (heaps): the script declares no key or     *)
(* uniqueness constraint, so nothing in the model forbids duplicates.      *)
(* `db` is what the connection's open transaction sees, `committed` what   *)
(* the server holds durably.                                               *)
(***************************************************************************)
EXTENDS Integers, Sequences, FiniteSets, TLC

\* Largest number of data rows of the CSV file (len(df)).
MaxRows == 2

\* Largest number of fields in which an input row differs from BaseRow.
MaxDiff == 1

\* Python None bound as a statement parameter, i.e. SQL NULL.
None == "<None>"

\* pandas.NaT: what parse_dates leaves for an empty FullDate cell.
NaT == [year |-> 0, month |-> 0, day |-> 0]

Date1 == [year |-> 2024, month |-> 3, day |-> 7]
Date2 == [year |-> 2024, month |-> 12, day |-> 31]

---------------------------------------------------------------------------
(* Input rows: the columns process_row reads.                              *)

RowSpace ==
    [ FullDate : {Date1, Date2, NaT},
      AccountFBID : {11, 12},
      ClientName : {"acme", "acme-renamed"},
      CampaignFBID : {21},
      CampaignName : {"spring"},
      Objective : {"SALES"},
      AdSetFBID : {31, 32},
      AdSetName : {"lookalike"},
      AdFBID : {41},
      AdName : {"video-a"},
      AdBody : {"body"},
      AdThumbnailURL : {None},
      PermanentLink : {"http://l"},
      AgeBracket : {"18-24", None},
      Gender : {"female"},
      Platform : {"facebook"},
      Device : {"mobile"},
      Position : {"feed", None},
      Spend : {100, 150},
      Impressions : {1000},
      Reach : {900},
      Clicks : {10},
      Purchases : {1},
      PurchaseValue : {50},
      VideoPlays_25_Pct : {4},
      VideoPlays_50_Pct : {3},
      VideoPlays_75_Pct : {2},
      VideoPlays_95_Pct : {1},
      VideoPlays_100_Pct : {1},
      Results : {1},
      CostPerResult : {100} ]

BaseRow ==
    [ FullDate |-> Date1, AccountFBID |-> 11, ClientName |-> "acme",
      CampaignFBID |-> 21, CampaignName |-> "spring", Objective |-> "SALES",
      AdSetFBID |-> 31, AdSetName |-> "lookalike",
      AdFBID |-> 41, AdName |-> "video-a", AdBody |-> "body",
      AdThumbnailURL |-> None, PermanentLink |-> "http://l",
      AgeBracket |-> "18-24", Gender |-> "female",
      Platform |-> "facebook", Device |-> "mobile", Position |-> "feed",
      Spend |-> 100, Impressions |-> 1000, Reach |-> 900, Clicks |-> 10,
      Purchases |-> 1, PurchaseValue |-> 50,
      VideoPlays_25_Pct |-> 4, VideoPlays_50_Pct |-> 3, VideoPlays_75_Pct |-> 2,
      VideoPlays_95_Pct |-> 1, VideoPlays_100_Pct |-> 1,
      Results |-> 1, CostPerResult |-> 100 ]

Diff(r) == Cardinality({f \in DOMAIN r : r[f] # BaseRow[f]})

\* The rows a CSV file may hold at any position.
Rows == {r \in RowSpace : Diff(r) <= MaxDiff}

---------------------------------------------------------------------------
(* get_or_create_date, line 127: int(full_date.strftime("%Y%m%d")).        *)
(* Text is a sequence of decimal digits.                                   *)

RECURSIVE Pow10(_)
Pow10(n) == IF n = 0 THEN 1 ELSE 10 * Pow10(n - 1)

\* A strftime field of fixed width: n in decimal, zero-padded on the left.
ZeroPad(n, width) == [i \in 1..width |-> (n \div Pow10(width - i)) % 10]

\* The same field without padding, as "%-m" would print it.
RECURSIVE NoPad(_)
NoPad(n) == IF n < 10 THEN <<n>> ELSE Append(NoPad(n \div 10), n % 10)

Unpadded(n, width) == NoPad(n)

Field(n, width) == ZeroPad(n, width)

\* strftime("%Y%m%d"): a Timestamp's year has four digits (1677..2262).
strftime_Ymd(d) == Field(d.year, 4) \o Field(d.month, 2) \o Field(d.day, 2)

\* int(text) for a text of decimal digits.
RECURSIVE int(_)
int(s) == IF s = <<>> THEN 0 ELSE 10 * int(SubSeq(s, 1, Len(s) - 1)) + s[Len(s)]

\* datetime.weekday(): Monday is 0 and Sunday 6.
MonthTerm == <<0, 3, 2, 5, 0, 3, 5, 1, 4, 6, 2, 4>>

weekday(d) ==
    LET y == IF d.month < 3 THEN d.year - 1 ELSE d.year
        sunday0 == (y + (y \div 4) - (y \div 100) + (y \div 400)
                      + MonthTerm[d.month] + d.day) % 7
    IN  (sunday0 + 6) % 7

---------------------------------------------------------------------------
(* The store. For the text parameters typed  str | None  a comparison      *)
(* column = ?  is true of no row when either side is NULL (ANSI_NULLS is   *)
(* on for ODBC connections); the integer parameters are never None.        *)

\* A comparison under which NULL equals NULL (IS NOT DISTINCT FROM).
SqlEq_null_safe(a, b) == a = b

SqlEq(a, b) == a # None /\ b # None /\ a = b

Tables == {"dim_Clients", "dim_Campaigns", "dim_AdSets", "dim_Ads", "dim_Date",
           "dim_Demographics", "dim_Placements", "fact_Metrics"}

EmptyStore == [t \in Tables |-> <<>>]

\* SELECT ... WHERE is SelectSeq: the rows that satisfy the condition, in
\* table order; fetchone() takes the first.
\* What a get-or-create hands back: the table as the transaction now sees it,
\* the key returned, and whether an INSERT ran.
Found(tbl, id) == [tbl |-> tbl, id |-> id, inserted |-> FALSE]

Inserted(tbl, newrow, id) == [tbl |-> Append(tbl, newrow), id |-> id, inserted |-> TRUE]

\* An upsert keyed on the client's name instead of its account: a row found
\* by name is moved to the account of the call,
\* UPDATE dim_Clients SET AccountFBID = ? WHERE ClientName = ?.
get_or_create_client_rekey(tbl, nextid, account_fbid, name) ==
    LET Match(r) == r.ClientName = name
        hit == SelectSeq(tbl, Match)
    IN  IF hit # <<>>
        THEN Found([i \in 1..Len(tbl) |->
                      IF Match(tbl[i]) THEN [tbl[i] EXCEPT !.AccountFBID = account_fbid]
                                       ELSE tbl[i]],
                   hit[1].ClientID)
        ELSE Inserted(tbl, [ClientID |-> nextid, AccountFBID |-> account_fbid,
                            ClientName |-> name], nextid)

\* The upsert that refreshes the stored row on a repeat sighting:
\* UPDATE dim_Clients SET ClientName = ? WHERE AccountFBID = ?.
get_or_create_client_upd(tbl, nextid, account_fbid, name) ==
    LET Match(r) == r.AccountFBID = account_fbid
        hit == SelectSeq(tbl, Match)
    IN  IF hit # <<>>
        THEN Found([i \in 1..Len(tbl) |->
                      IF Match(tbl[i]) THEN [tbl[i] EXCEPT !.ClientName = name]
                                       ELSE tbl[i]],
                   hit[1].ClientID)
        ELSE Inserted(tbl, [ClientID |-> nextid, AccountFBID |-> account_fbid,
                            ClientName |-> name], nextid)

get_or_create_client(tbl, nextid, account_fbid, name) ==
    LET Match(r) == r.AccountFBID = account_fbid
        hit == SelectSeq(tbl, Match)
    IN  IF hit # <<>>
        THEN Found(tbl, hit[1].ClientID)
        ELSE Inserted(tbl, [ClientID |-> nextid, AccountFBID |-> account_fbid,
                            ClientName |-> name], nextid)

get_or_create_campaign(tbl, nextid, client_id, campaign_fbid, name, objective) ==
    LET Match(r) == r.CampaignFBID = campaign_fbid
        hit == SelectSeq(tbl, Match)
    IN  IF hit # <<>>
        THEN Found(tbl, hit[1].CampaignID)
        ELSE Inserted(tbl, [CampaignID |-> nextid, ClientID |-> client_id,
                            CampaignFBID |-> campaign_fbid, CampaignName |-> name,
                            Objective |-> objective], nextid)

get_or_create_adset(tbl, nextid, campaign_id, adset_fbid, name) ==
    LET Match(r) == r.AdSetFBID = adset_fbid
        hit == SelectSeq(tbl, Match)
    IN  IF hit # <<>>
        THEN Found(tbl, hit[1].AdSetID)
        ELSE Inserted(tbl, [AdSetID |-> nextid, CampaignID |-> campaign_id,
                            AdSetFBID |-> adset_fbid, AdSetName |-> name], nextid)

get_or_create_ad(tbl, nextid, adset_id, ad_fbid, name, body, thumbnail_url, permanent_link) ==
    LET Match(r) == r.AdFBID = ad_fbid
        hit == SelectSeq(tbl, Match)
    IN  IF hit # <<>>
        THEN Found(tbl, hit[1].AdID)
        ELSE Inserted(tbl, [AdID |-> nextid, AdSetID |-> adset_id, AdFBID |-> ad_fbid,
                            AdName |-> name, AdBody |-> body,
                            AdThumbnailURL |-> thumbnail_url,
                            PermanentLink |-> permanent_link], nextid)

\* The key is computed from the date; the store issues nothing.
get_or_create_date(tbl, full_date) ==
    LET date_id == int(strftime_Ymd(full_date))
        Match(r) == r.DateID = date_id
    IN  IF SelectSeq(tbl, Match) # <<>>
        THEN Found(tbl, date_id)
        ELSE Inserted(tbl, [DateID |-> date_id, FullDate |-> full_date,
                            Year |-> full_date.year, Month |-> full_date.month,
                            Day |-> full_date.day,
                            DayOfWeek |-> weekday(full_date) + 1], date_id)

get_or_create_demographic(tbl, nextid, age_bracket, gender) ==
    LET Match(r) == SqlEq(r.AgeBracket, age_bracket) /\ SqlEq(r.Gender, gender)
        hit == SelectSeq(tbl, Match)
    IN  IF hit # <<>>
        THEN Found(tbl, hit[1].DemographicID)
        ELSE Inserted(tbl, [DemographicID |-> nextid, AgeBracket |-> age_bracket,
                            Gender |-> gender], nextid)

get_or_create_placement(tbl, nextid, platform, device, position) ==
    LET Match(r) == /\ SqlEq(r.Platform, platform)
                    /\ SqlEq(r.Device, device)
                    /\ SqlEq(r.Position, position)
        hit == SelectSeq(tbl, Match)
    IN  IF hit # <<>>
        THEN Found(tbl, hit[1].PlacementID)
        ELSE Inserted(tbl, [PlacementID |-> nextid, Platform |-> platform,
                            Device |-> device, Position |-> position], nextid)

---------------------------------------------------------------------------
(* process_row, lines 217-257: the fact replacement.                       *)

SameGrain(f, date_id, ad_id, demographic_id, placement_id) ==
    /\ f.DateID = date_id
    /\ f.AdID = ad_id
    /\ f.DemographicID = demographic_id
    /\ f.PlacementID = placement_id

\* The DELETE with a WHERE clause that names the date alone.
DeleteFact_byDate(tbl, date_id, ad_id, demographic_id, placement_id) ==
    LET Keep(f) == f.DateID # date_id
    IN  SelectSeq(tbl, Keep)

\* The DELETE with its first two parameters bound in the wrong order.
DeleteFact_swapped(tbl, date_id, ad_id, demographic_id, placement_id) ==
    LET Keep(f) == ~SameGrain(f, ad_id, date_id, demographic_id, placement_id)
    IN  SelectSeq(tbl, Keep)

\* DELETE FROM fact_Metrics WHERE DateID=? AND AdID=? AND DemographicID=? AND PlacementID=?
DeleteFact(tbl, date_id, ad_id, demographic_id, placement_id) ==
    LET Keep(f) == ~SameGrain(f, date_id, ad_id, demographic_id, placement_id)
    IN  SelectSeq(tbl, Keep)

\* The INSERT with client_id and campaign_id bound in the wrong order.
FactRow_swapped(k, r) ==
    [ DateID |-> k.date_id, ClientID |-> k.campaign_id, CampaignID |-> k.client_id,
      AdSetID |-> k.adset_id, AdID |-> k.ad_id,
      DemographicID |-> k.demographic_id, PlacementID |-> k.placement_id,
      Spend |-> r.Spend, Impressions |-> r.Impressions, Reach |-> r.Reach,
      Clicks |-> r.Clicks, Purchases |-> r.Purchases,
      PurchaseValue |-> r.PurchaseValue,
      VideoPlays_25_Pct |-> r.VideoPlays_25_Pct,
      VideoPlays_50_Pct |-> r.VideoPlays_50_Pct,
      VideoPlays_75_Pct |-> r.VideoPlays_75_Pct,
      VideoPlays_95_Pct |-> r.VideoPlays_95_Pct,
      VideoPlays_100_Pct |-> r.VideoPlays_100_Pct,
      Results |-> r.Results, CostPerResult |-> r.CostPerResult ]

\* The row of INSERT INTO fact_Metrics (...) VALUES (...), lines 237-256.
FactRow(k, r) ==
    [ DateID |-> k.date_id, ClientID |-> k.client_id, CampaignID |-> k.campaign_id,
      AdSetID |-> k.adset_id, AdID |-> k.ad_id,
      DemographicID |-> k.demographic_id, PlacementID |-> k.placement_id,
      Spend |-> r.Spend, Impressions |-> r.Impressions, Reach |-> r.Reach,
      Clicks |-> r.Clicks, Purchases |-> r.Purchases,
      PurchaseValue |-> r.PurchaseValue,
      VideoPlays_25_Pct |-> r.VideoPlays_25_Pct,
      VideoPlays_50_Pct |-> r.VideoPlays_50_Pct,
      VideoPlays_75_Pct |-> r.VideoPlays_75_Pct,
      VideoPlays_95_Pct |-> r.VideoPlays_95_Pct,
      VideoPlays_100_Pct |-> r.VideoPlays_100_Pct,
      Results |-> r.Results, CostPerResult |-> r.CostPerResult ]

InsertFact(tbl, k, r) == Append(tbl, FactRow(k, r))

---------------------------------------------------------------------------
(* The connection: conn.commit() and conn.rollback(), lines 286 and 288.   *)

\* A loop body that never reaches the server with its commit.
conn_commit_skipped(session, durable) == durable

\* What the server holds durably after conn.commit().
conn_commit(session, durable) == session

\* An except clause without the rollback: the failed row's work stays pending.
conn_rollback_skipped(session, durable) == session

\* What the transaction that opens after conn.rollback() sees.
conn_rollback(session, durable) == durable

---------------------------------------------------------------------------
(* State.                                                                  *)

VARIABLES
    pc,         \* where main() is
    total,      \* len(df)
    idx,        \* the loop's idx; 0 before the first row
    row,        \* the loop's row
    keys,       \* process_row's locals date_id ... placement_id; 0 is unbound
    err,        \* the pyodbc.Error being handled: the statement that raised it
    db,         \* the tables as the connection's open transaction sees them
    committed,  \* the tables as the server holds them durably
    ident,      \* last IDENTITY value issued per table; a rollback does not return it
    txStart,    \* history: `committed` when the current row's processing began
    log,        \* history: per processed row, its outcome and what it resolved
    out         \* what main() has printed

vars == <<pc, total, idx, row, keys, err, db, committed, ident, txStart, log, out>>

NoRow == [none |-> TRUE]

NoKeys == [date_id |-> 0, client_id |-> 0, campaign_id |-> 0, adset_id |-> 0,
           ad_id |-> 0, demographic_id |-> 0, placement_id |-> 0]

IdentityTables == Tables \ {"dim_Date", "fact_Metrics"}

\* The statements of one loop iteration, in program order.
Statements == <<"date", "client", "campaign", "adset", "ad", "demographic",
                "placement", "delete", "insert", "commit">>

Init ==
    /\ pc = "connect"
    /\ total = 0
    /\ idx = 0
    /\ row = NoRow
    /\ keys = NoKeys
    /\ err = "none"
    /\ db = EmptyStore
    /\ committed = EmptyStore
    /\ ident = [t \in IdentityTables |-> 0]
    /\ txStart = EmptyStore
    /\ log = <<>>
    /\ out = <<>>

---------------------------------------------------------------------------
(* main(), lines 263-293.                                                  *)

\* pyodbc.connect succeeds.
Connect ==
    /\ pc = "connect"
    /\ pc' = "read_csv"
    /\ out' = Append(out, [msg |-> "Conectando a la base de datos..."])
    /\ UNCHANGED <<total, idx, row, keys, err, db, committed, ident, txStart, log>>

\* pyodbc.connect raises pyodbc.Error: sys.exit(1).
ConnectFails ==
    /\ pc = "connect"
    /\ pc' = "exit1"
    /\ out' = out \o <<[msg |-> "Conectando a la base de datos..."],
                       [msg |-> "Error de conexion"]>>
    /\ UNCHANGED <<total, idx, row, keys, err, db, committed, ident, txStart, log>>

\* pd.read_csv returns the frame; its rows are drawn as the loop reaches them.
ReadCsv ==
    /\ pc = "read_csv"
    /\ \E n \in 0..MaxRows : total' = n
    /\ pc' = "loop"
    /\ out' = Append(out, [msg |-> "Iniciando importacion"])
    /\ UNCHANGED <<idx, row, keys, err, db, committed, ident, txStart, log>>

\* The same handler without its sys.exit(1): the message is printed and the
\* loop is entered all the same.
ReadCsvFails_continues ==
    /\ pc = "read_csv"
    /\ pc' = "loop"
    /\ total' = 1
    /\ out' = Append(out, [msg |-> "No se pudo leer el CSV"])
    /\ UNCHANGED <<idx, row, keys, err, db, committed, ident, txStart, log>>

\* pd.read_csv raises: conn.close(), sys.exit(1).
ReadCsvFails ==
    /\ pc = "read_csv"
    /\ pc' = "exit1"
    /\ out' = Append(out, [msg |-> "No se pudo leer el CSV"])
    /\ UNCHANGED <<total, idx, row, keys, err, db, committed, ident, txStart, log>>

\* The for statement takes the next row and prints the progress line.
NextRow ==
    /\ pc = "loop"
    /\ idx < total
    /\ idx' = idx + 1
    /\ \E r \in Rows : row' = r
    /\ keys' = NoKeys
    /\ err' = "none"
    /\ txStart' = committed
    /\ pc' = "date"
    /\ out' = Append(out, [msg |-> "Procesando fila", idx |-> idx + 1, total |-> total])
    /\ UNCHANGED <<total, db, committed, ident, log>>

\* The for statement is exhausted: cursor.close(), conn.close(), last print.
Finish ==
    /\ pc = "loop"
    /\ idx = total
    /\ pc' = "done"
    /\ db' = committed
    /\ out' = Append(out, [msg |-> "Importacion completada."])
    /\ UNCHANGED <<total, idx, row, keys, err, committed, ident, txStart, log>>

\* The exception that line 287 binds when cursor.execute or conn.commit
\* raised in the given statement: pyodbc raises its own class with the
\* driver's SQLSTATE and message as args, whichever statement it was; no
\* function of the script catches it on the way or adds to it.  The message
\* is the server's (here a lost connection), and line 289 prints it.
pyodbc_Error(statement) ==
    [class |-> "pyodbc.Error",
     args  |-> <<"08S01", "Communication link failure">>]

\* A statement of process_row, or conn.commit(), raises pyodbc.Error.
RaisePyodbcError ==
    /\ \E i \in 1..Len(Statements) : pc = Statements[i]
    /\ ~(pc = "date" /\ row.FullDate = NaT)
    /\ err' = pc
    /\ pc' = "except"
    /\ UNCHANGED <<total, idx, row, keys, db, committed, ident, txStart, log, out>>

\* The same clause without conn.rollback(): the error is printed and the
\* loop goes on inside the transaction the failed row left open.
ExceptHandler_no_rollback ==
    /\ pc = "except"
    /\ out' = Append(out, [msg |-> "Error en fila", idx |-> idx,
                          err |-> pyodbc_Error(err).args])
    /\ log' = Append(log, [status |-> "RolledBack", err |-> err])
    /\ pc' = "loop"
    /\ UNCHANGED <<total, idx, row, keys, err, db, committed, ident, txStart>>

\* except pyodbc.Error, lines 287-289.
ExceptHandler ==
    /\ pc = "except"
    /\ db' = conn_rollback(db, committed)
    /\ out' = Append(out, [msg |-> "Error en fila", idx |-> idx,
                          err |-> pyodbc_Error(err).args])
    /\ log' = Append(log, [status |-> "RolledBack", err |-> err])
    /\ pc' = "loop"
    /\ UNCHANGED <<total, idx, row, keys, err, committed, ident, txStart>>

\* conn.commit(), line 286.
Commit ==
    /\ pc = "commit"
    /\ committed' = conn_commit(db, committed)
    /\ log' = Append(log, [status |-> "Committed", keys |-> keys, row |-> row])
    /\ pc' = "loop"
    /\ UNCHANGED <<total, idx, row, keys, err, db, ident, txStart, out>>

---------------------------------------------------------------------------
(* process_row, lines 200-257, one statement per action.                   *)

\* The bookkeeping every get-or-create step shares: the table and the key
\* it returned are taken over, and an INSERT consumes one IDENTITY value.
Resolved(table, local, res, next) ==
    /\ db' = [db EXCEPT ![table] = res.tbl]
    /\ keys' = [keys EXCEPT ![local] = res.id]
    /\ ident' = IF res.inserted /\ table \in IdentityTables
                THEN [ident EXCEPT ![table] = @ + 1]
                ELSE ident
    /\ pc' = next
    /\ UNCHANGED <<total, idx, row, err, committed, txStart, log, out>>

\* line 201
ResolveDate ==
    /\ pc = "date"
    /\ row.FullDate # NaT
    /\ Resolved("dim_Date", "date_id",
                get_or_create_date(db.dim_Date, row.FullDate), "client")

\* line 201 with FullDate = NaT: NaT.strftime raises ValueError, which the
\* except clause of line 287 does not catch; the interpreter exits with a
\* traceback and the server discards the open transaction.
DateRaisesValueError ==
    /\ pc = "date"
    /\ row.FullDate = NaT
    /\ pc' = "crashed"
    /\ db' = committed
    /\ UNCHANGED <<total, idx, row, keys, err, committed, ident, txStart, log, out>>

\* line 202
ResolveClient ==
    /\ pc = "client"
    /\ Resolved("dim_Clients", "client_id",
                get_or_create_client(db.dim_Clients, ident.dim_Clients + 1,
                                     row.AccountFBID, row.ClientName),
                "campaign")

\* line 203 with the wrong local passed as the parent: adset_id, which
\* nothing has bound yet.
ResolveCampaign_wrong_parent ==
    /\ pc = "campaign"
    /\ Resolved("dim_Campaigns", "campaign_id",
                get_or_create_campaign(db.dim_Campaigns, ident.dim_Campaigns + 1,
                                       keys.adset_id, row.CampaignFBID,
                                       row.CampaignName, row.Objective),
                "adset")

\* line 203
ResolveCampaign ==
    /\ pc = "campaign"
    /\ Resolved("dim_Campaigns", "campaign_id",
                get_or_create_campaign(db.dim_Campaigns, ident.dim_Campaigns + 1,
                                       keys.client_id, row.CampaignFBID,
                                       row.CampaignName, row.Objective),
                "adset")

\* line 204
ResolveAdSet ==
    /\ pc = "adset"
    /\ Resolved("dim_AdSets", "adset_id",
                get_or_create_adset(db.dim_AdSets, ident.dim_AdSets + 1,
                                    keys.campaign_id, row.AdSetFBID, row.AdSetName),
                "ad")

\* lines 205-213
ResolveAd ==
    /\ pc = "ad"
    /\ Resolved("dim_Ads", "ad_id",
                get_or_create_ad(db.dim_Ads, ident.dim_Ads + 1, keys.adset_id,
                                 row.AdFBID, row.AdName, row.AdBody,
                                 row.AdThumbnailURL, row.PermanentLink),
                "demographic")

\* line 214
ResolveDemographic ==
    /\ pc = "demographic"
    /\ Resolved("dim_Demographics", "demographic_id",
                get_or_create_demographic(db.dim_Demographics,
                                          ident.dim_Demographics + 1,
                                          row.AgeBracket, row.Gender),
                "placement")

\* line 215
ResolvePlacement ==
    /\ pc = "placement"
    /\ Resolved("dim_Placements", "placement_id",
                get_or_create_placement(db.dim_Placements, ident.dim_Placements + 1,
                                        row.Platform, row.Device, row.Position),
                "delete")

\* lines 217-226
DeleteStep ==
    /\ pc = "delete"
    /\ db' = [db EXCEPT !.fact_Metrics =
                DeleteFact(@, keys.date_id, keys.ad_id,
                           keys.demographic_id, keys.placement_id)]
    /\ pc' = "insert"
    /\ UNCHANGED <<total, idx, row, keys, err, committed, ident, txStart, log, out>>

\* lines 228-257
InsertStep ==
    /\ pc = "insert"
    /\ db' = [db EXCEPT !.fact_Metrics = InsertFact(@, keys, row)]
    /\ pc' = "commit"
    /\ UNCHANGED <<total, idx, row, keys, err, committed, ident, txStart, log, out>>

Next ==
    \/ Connect
    \/ ConnectFails
    \/ ReadCsv
    \/ ReadCsvFails
    \/ NextRow
    \/ Finish
    \/ ResolveDate
    \/ DateRaisesValueError
    \/ ResolveClient
    \/ ResolveCampaign
    \/ ResolveAdSet
    \/ ResolveAd
    \/ ResolveDemographic
    \/ ResolvePlacement
    \/ DeleteStep
    \/ InsertStep
    \/ Commit
    \/ RaisePyodbcError
    \/ ExceptHandler

Spec == Init /\ [][Next]_vars

---------------------------------------------------------------------------
(* Vocabulary of the properties.                                           *)

CommittedRows == {i \in 1..Len(log) : log[i].status = "Committed"}

RolledBackRows == {i \in 1..Len(log) : log[i].status = "RolledBack"}

Range(seq) == {seq[i] : i \in 1..Len(seq)}

GrainOf(f) == <<f.DateID, f.AdID, f.DemographicID, f.PlacementID>>

GrainOfKeys(k) == <<k.date_id, k.ad_id, k.demographic_id, k.placement_id>>

NoDuplicateGrain(tbl) ==
    \A i, j \in 1..Len(tbl) : i # j => GrainOf(tbl[i]) # GrainOf(tbl[j])

\* A fact row carries the foreign keys k and the measures of input row r.
Carries(f, k, r) ==
    /\ f.DateID = k.date_id /\ f.ClientID = k.client_id
    /\ f.CampaignID = k.campaign_id /\ f.AdSetID = k.adset_id
    /\ f.AdID = k.ad_id /\ f.DemographicID = k.demographic_id
    /\ f.PlacementID = k.placement_id
    /\ f.Spend = r.Spend /\ f.Impressions = r.Impressions /\ f.Reach = r.Reach
    /\ f.Clicks = r.Clicks /\ f.Purchases = r.Purchases
    /\ f.PurchaseValue = r.PurchaseValue
    /\ f.VideoPlays_25_Pct = r.VideoPlays_25_Pct
    /\ f.VideoPlays_50_Pct = r.VideoPlays_50_Pct
    /\ f.VideoPlays_75_Pct = r.VideoPlays_75_Pct
    /\ f.VideoPlays_95_Pct = r.VideoPlays_95_Pct
    /\ f.VideoPlays_100_Pct = r.VideoPlays_100_Pct
    /\ f.Results = r.Results /\ f.CostPerResult = r.CostPerResult

\* Row i committed and no later row of the same grain did.
LastForGrain(i) ==
    /\ i \in CommittedRows
    /\ \A j \in CommittedRows :
          j > i => GrainOfKeys(log[j].keys) # GrainOfKeys(log[i].keys)

---------------------------------------------------------------------------
(* C1. Whenever the processing of a row raises an error, the run does not  *)
(* abort: the row is rolled back and every later row is still processed,   *)
(* so the run never dies inside the loop and ends with all rows handled.   *)
(* Stated as the claim has it; the code violates it on a row whose         *)
(* FullDate is NaT.                                                        *)
C1_ErrorNeverAbortsRun ==
    /\ pc # "crashed"
    /\ pc = "done" => Len(log) = total

(* C2. When a row fails at any statement, the commit included, then after  *)
(* the rollback both the tables the connection sees and the tables the     *)
(* server holds are exactly what was committed when the row started.       *)
C2_RollbackRestoresStore ==
    [][pc = "except" => (db' = txStart /\ committed' = txStart)]_vars

\* A row failed at the fact INSERT after it had inserted a dimension row and
\* deleted the committed fact row of its grain; after the rollback the
\* dimension row is gone and the fact row is back.
C2_Witness ==
    /\ pc = "loop"
    /\ err = "insert"
    /\ Len(log) = 2 /\ log[1].status = "Committed" /\ log[2].status = "RolledBack"
    /\ GrainOfKeys(keys) = GrainOfKeys(log[1].keys)
    /\ keys.client_id # log[1].keys.client_id
    /\ \A c \in Range(db.dim_Clients) : c.ClientID # keys.client_id
    /\ \E f \in Range(db.fact_Metrics) : Carries(f, log[1].keys, log[1].row)

(* C3. After every commit or rollback, and at the end of the run, no two   *)
(* rows of fact_Metrics have the same (DateID, AdID, DemographicID,        *)
(* PlacementID).                                                           *)
C3_OneFactRowPerGrain ==
    pc \in {"loop", "done", "crashed"} =>
        /\ NoDuplicateGrain(db.fact_Metrics)
        /\ NoDuplicateGrain(committed.fact_Metrics)

\* Two rows of the same grain committed and one fact row is left.
C3_Witness ==
    /\ pc = "loop"
    /\ CommittedRows = {1, 2}
    /\ GrainOfKeys(log[1].keys) = GrainOfKeys(log[2].keys)
    /\ Len(db.fact_Metrics) = 1

(* C4. At the end of the run the fact rows of a grain are exactly one row, *)
(* carrying the foreign keys and the measures of the last row of the input *)
(* that committed for that grain, and there is no fact row of a grain for   *)
(* which no row committed.                                                 *)
C4_LastWriteWins ==
    pc \in {"done", "crashed"} =>
        /\ \A i \in 1..Len(log) : LastForGrain(i) =>
              \E n \in 1..Len(committed.fact_Metrics) :
                 /\ Carries(committed.fact_Metrics[n], log[i].keys, log[i].row)
                 /\ \A m \in 1..Len(committed.fact_Metrics) :
                       GrainOf(committed.fact_Metrics[m]) = GrainOfKeys(log[i].keys)
                          => m = n
        /\ \A f \in Range(committed.fact_Metrics) :
              \E i \in CommittedRows : GrainOf(f) = GrainOfKeys(log[i].keys)

\* Spend 100 then Spend 150 for one grain: the run ends with the 150 alone.
C4_Witness ==
    /\ pc = "done"
    /\ CommittedRows = {1, 2}
    /\ GrainOfKeys(log[1].keys) = GrainOfKeys(log[2].keys)
    /\ log[1].row.Spend = 100 /\ log[2].row.Spend = 150
    /\ Len(committed.fact_Metrics) = 1
    /\ \A f \in Range(committed.fact_Metrics) : f.Spend = 150

---------------------------------------------------------------------------
\* The natural key of a row of each dimension table, as the lookups name it.
NaturalKey(t, r) ==
    CASE t = "dim_Clients"      -> <<r.AccountFBID>>
      [] t = "dim_Campaigns"    -> <<r.CampaignFBID>>
      [] t = "dim_AdSets"       -> <<r.AdSetFBID>>
      [] t = "dim_Ads"          -> <<r.AdFBID>>
      [] t = "dim_Date"         -> <<r.FullDate>>
      [] t = "dim_Demographics" -> <<r.AgeBracket, r.Gender>>
      [] t = "dim_Placements"   -> <<r.Platform, r.Device, r.Position>>

Dimensions == Tables \ {"fact_Metrics"}

(* C5. In every committed state no dimension table holds two rows with the *)
(* same natural key (a natural key committed once is found again and not   *)
(* inserted a second time).  Stated as the claim has it; the code violates  *)
(* it for dim_Demographics and dim_Placements when a component of the      *)
(* natural key is None.                                                    *)
C5_NaturalKeyUnique ==
    \A t \in Dimensions : \A i, j \in 1..Len(committed[t]) :
        i # j => NaturalKey(t, committed[t][i]) # NaturalKey(t, committed[t][j])

\* The rows of a table whose surrogate key column has the given value.
WithKey(tbl, col, id) == {r \in Range(tbl) : r[col] = id}

(* C6. For every committed row of the input: the dim_Ads row of its ad key *)
(* references its ad set key, that dim_AdSets row references its campaign   *)
(* key, and that dim_Campaigns row references the dim_Clients row whose     *)
(* AccountFBID is the input row's.  Stated as the claim has it; the code    *)
(* violates it when a natural key reappears under another parent.          *)
C6_HierarchyIntegrity ==
    \A i \in CommittedRows :
        LET k == log[i].keys
        IN  /\ \A a \in WithKey(committed.dim_Ads, "AdID", k.ad_id) :
                  a.AdSetID = k.adset_id
            /\ \A s \in WithKey(committed.dim_AdSets, "AdSetID", k.adset_id) :
                  s.CampaignID = k.campaign_id
            /\ \A c \in WithKey(committed.dim_Campaigns, "CampaignID", k.campaign_id) :
                  \E cl \in WithKey(committed.dim_Clients, "ClientID", c.ClientID) :
                      cl.AccountFBID = log[i].row.AccountFBID

\* Every row of a table is still in it, unchanged.
Kept(before, after) == \A r \in Range(before) : r \in Range(after)

\* The work of every row that committed is in the store: the seven rows its
\* keys name, and its fact row unless a later row of its grain committed.
Survives(store) ==
    \A i \in CommittedRows :
        LET k == log[i].keys
        IN  /\ WithKey(store.dim_Date, "DateID", k.date_id) # {}
            /\ WithKey(store.dim_Clients, "ClientID", k.client_id) # {}
            /\ WithKey(store.dim_Campaigns, "CampaignID", k.campaign_id) # {}
            /\ WithKey(store.dim_AdSets, "AdSetID", k.adset_id) # {}
            /\ WithKey(store.dim_Ads, "AdID", k.ad_id) # {}
            /\ WithKey(store.dim_Demographics, "DemographicID", k.demographic_id) # {}
            /\ WithKey(store.dim_Placements, "PlacementID", k.placement_id) # {}
            /\ LastForGrain(i) =>
                  \E f \in Range(store.fact_Metrics) : Carries(f, k, log[i].row)

(* C7. A committed row is never undone: no step removes or changes a       *)
(* committed dimension row, a committed fact row goes only when a row of    *)
(* its grain commits, and after the rollback of a failed row the work of    *)
(* every row that committed before it is in the store, seen and durable.    *)
C7_CommittedWorkStays ==
    [][ /\ \A t \in Dimensions : Kept(committed[t], committed'[t])
        /\ \A f \in Range(committed.fact_Metrics) :
              \/ f \in Range(committed'.fact_Metrics)
              \/ pc = "commit" /\ GrainOf(f) = GrainOfKeys(keys)
        /\ pc = "except" => Survives(db') /\ Survives(committed') ]_vars

\* Row 1 committed, row 2 failed after changing tables, and row 1's work is
\* there after the rollback.
C7_Witness ==
    /\ pc = "loop"
    /\ Len(log) = 2 /\ log[1].status = "Committed" /\ log[2].status = "RolledBack"
    /\ err \in {"delete", "insert", "commit"}
    /\ Survives(db) /\ Survives(committed)
    /\ Len(committed.fact_Metrics) = 1

(* C8. At the end of the run the output holds one summary whose succeeded  *)
(* count is the number of committed rows, whose failed count is the number  *)
(* of rolled-back rows, and whose failure list is their positions.  Stated  *)
(* as the claim has it; the code prints the error lines as they happen and  *)
(* a fixed last line, and no counts.                                       *)
C8_SummaryAtEnd ==
    pc = "done" =>
        \E n \in 1..Len(out) :
            /\ {"succeeded", "failed", "failures"} \subseteq DOMAIN out[n]
            /\ out[n].succeeded = Cardinality(CommittedRows)
            /\ out[n].failed = Cardinality(RolledBackRows)
            /\ out[n].succeeded + out[n].failed = total
            /\ out[n].failures = RolledBackRows

\* year*10000 + month*100 + day
DateKey(d) == d.year * 10000 + d.month * 100 + d.day

\* Dates across the range of a pandas Timestamp, every month, days 1 to 28.
CalendarDates ==
    [year : {1677, 1900, 1999, 2000, 2024, 2262}, month : 1..12, day : 1..28]

\* On each of them the call returns the key, inserting the row with that key
\* into an empty table and leaving a table that holds it as it is.
DateKeyOnCalendar ==
    \A d \in CalendarDates :
        LET first == get_or_create_date(<<>>, d)
            again == get_or_create_date(first.tbl, d)
        IN  /\ first.id = DateKey(d) /\ first.inserted
            /\ Len(first.tbl) = 1 /\ first.tbl[1].DateID = DateKey(d)
            /\ again.id = DateKey(d) /\ ~again.inserted
            /\ again.tbl = first.tbl

(* C9. get_or_create_date returns year*10000 + month*100 + day, whether it  *)
(* found the row or inserted it, and dim_Date never holds two rows with    *)
(* one key: every row's key is the key of its date.                         *)
C9_DateKey ==
    /\ DateKeyOnCalendar
    /\ keys.date_id # 0 => keys.date_id = DateKey(row.FullDate)
    /\ \A store \in {db, committed} :
          /\ \A r \in Range(store.dim_Date) : r.DateID = DateKey(r.FullDate)
          /\ \A i, j \in 1..Len(store.dim_Date) :
                i # j => store.dim_Date[i].DateID # store.dim_Date[j].DateID

\* 2024-03-07 resolved a second time, after the row that inserted it
\* committed: the key is 20240307 and there is one row.
C9_Witness ==
    /\ pc = "client"
    /\ row.FullDate = Date1
    /\ keys.date_id = 20240307
    /\ \E i \in CommittedRows : log[i].keys.date_id = 20240307
    /\ WithKey(committed.dim_Date, "DateID", 20240307) # {}
    /\ Len(db.dim_Date) = 1

\* The rows the SELECT of the get-or-create at statement `at` finds.
Hits(at) ==
    CASE at = "date" ->
             {r \in Range(db.dim_Date) : r.DateID = DateKey(row.FullDate)}
      [] at = "client" ->
             {r \in Range(db.dim_Clients) : r.AccountFBID = row.AccountFBID}
      [] at = "campaign" ->
             {r \in Range(db.dim_Campaigns) : r.CampaignFBID = row.CampaignFBID}
      [] at = "adset" ->
             {r \in Range(db.dim_AdSets) : r.AdSetFBID = row.AdSetFBID}
      [] at = "ad" ->
             {r \in Range(db.dim_Ads) : r.AdFBID = row.AdFBID}
      [] at = "demographic" ->
             {r \in Range(db.dim_Demographics) :
                 SqlEq(r.AgeBracket, row.AgeBracket) /\ SqlEq(r.Gender, row.Gender)}
      [] at = "placement" ->
             {r \in Range(db.dim_Placements) :
                 /\ SqlEq(r.Platform, row.Platform)
                 /\ SqlEq(r.Device, row.Device)
                 /\ SqlEq(r.Position, row.Position)}

KeyColumn ==
    [date |-> "DateID", client |-> "ClientID", campaign |-> "CampaignID",
     adset |-> "AdSetID", ad |-> "AdID", demographic |-> "DemographicID",
     placement |-> "PlacementID"]

KeyLocal ==
    [date |-> "date_id", client |-> "client_id", campaign |-> "campaign_id",
     adset |-> "adset_id", ad |-> "ad_id", demographic |-> "demographic_id",
     placement |-> "placement_id"]

(* C10. A get-or-create that finds a row returns that row's surrogate key  *)
(* and changes no table: the arguments of the call are not written to the   *)
(* row found, whatever it holds.                                           *)
C10_FoundLeavesTablesAlone ==
    [][ \A at \in DOMAIN KeyColumn :
          (pc = at /\ pc' \notin {"except", "crashed"} /\ Hits(at) # {}) =>
              /\ db' = db
              /\ committed' = committed
              /\ \E r \in Hits(at) : keys'[KeyLocal[at]] = r[KeyColumn[at]] ]_vars

\* A row names a client that is stored under another name: the stored row's
\* key was returned and the row still holds the name it was created with.
C10_Witness ==
    /\ pc = "campaign"
    /\ Len(db.dim_Clients) = 1
    /\ \E c \in Range(db.dim_Clients) :
          /\ c.AccountFBID = row.AccountFBID
          /\ c.ClientID = keys.client_id
          /\ c.ClientName # row.ClientName
          /\ c \in Range(committed.dim_Clients)

---------------------------------------------------------------------------
\* main() has printed one of its two fatal messages (lines 268 and 274).
FatalReported ==
    \E n \in 1..Len(out) : out[n].msg \in {"Error de conexion", "No se pudo leer el CSV"}

(* C11. When the connection cannot be opened or the CSV cannot be read, the *)
(* run ends there: the loop is never entered, no row is taken, no table is  *)
(* changed, no key is issued and nothing is committed.                      *)
C11_FatalBeforeAnyRow ==
    FatalReported =>
        /\ pc = "exit1"
        /\ idx = 0 /\ row = NoRow /\ keys = NoKeys /\ log = <<>>
        /\ db = EmptyStore /\ committed = EmptyStore
        /\ \A t \in IdentityTables : ident[t] = 0

\* The connection opened and read_csv raised.
C11_Witness ==
    /\ pc = "exit1"
    /\ \E n \in 1..Len(out) : out[n].msg = "No se pudo leer el CSV"
    /\ \A n \in 1..Len(out) : out[n].msg # "Error de conexion"

---------------------------------------------------------------------------
\* Row i has reached its end: its transaction committed or was rolled back.
Ended(i) == i <= Len(log) /\ log[i].status \in {"Committed", "RolledBack"}

(* C12. Rows are taken one at a time in input order, each in a transaction *)
(* of its own: idx only ever grows by one, a row is taken only when every   *)
(* row before it has committed or rolled back, and at that moment the open  *)
(* transaction holds nothing that is not committed.                        *)
C12_OneRowAtATime ==
    [][ /\ idx' \in {idx, idx + 1}
        /\ Len(log') \in {idx' - 1, idx'}
        /\ idx' = idx + 1 =>
              /\ pc = "loop" /\ pc' = "date"
              /\ \A i \in 1..idx : Ended(i)
              /\ Len(log) = idx
              /\ db = committed /\ db' = committed' ]_vars

\* Row 2 starts after row 1 failed with changes pending: they are gone.
C12_Witness ==
    /\ pc = "date" /\ idx = 2
    /\ Len(log) = 1 /\ log[1].status = "RolledBack"
    /\ ident.dim_Clients = 1
    /\ db = committed /\ db = EmptyStore

---------------------------------------------------------------------------
(* The state of input row i in the record state machine, read off main():  *)
(* Pending until the loop takes it, Resolving while the get-or-create      *)
(* calls run or have failed, Replacing from the fact DELETE to the commit, *)
(* and then what the log says.                                             *)
ResolvingAt == {"date", "client", "campaign", "adset", "ad", "demographic", "placement"}

ReplacingAt == {"delete", "insert", "commit"}

StatusOf(i) ==
    IF i <= Len(log) THEN log[i].status
    ELSE IF i > idx THEN "Pending"
    ELSE IF pc \in ReplacingAt \/ (pc = "except" /\ err \in ReplacingAt) THEN "Replacing"
    ELSE "Resolving"

RecordTransitions ==
    {<<"Pending", "Resolving">>, <<"Resolving", "Replacing">>,
     <<"Replacing", "Committed">>, <<"Resolving", "RolledBack">>,
     <<"Replacing", "RolledBack">>}

\* Every row keeps its state or moves along one of the five transitions.
OnlyRecordTransitions ==
    \A i \in 1..MaxRows :
        StatusOf(i)' = StatusOf(i) \/ <<StatusOf(i), StatusOf(i)'>> \in RecordTransitions

\* main() has returned or the interpreter has exited.
RunOver == pc \in {"done", "exit1", "crashed"}

AllRowsFinal == \A i \in 1..total : StatusOf(i) \in {"Committed", "RolledBack"}

\* The first half of C13 alone, which the code satisfies.
RecordTransitionsHold == [][OnlyRecordTransitions]_vars

(* C13. Every row moves only along Pending -> Resolving -> Replacing ->    *)
(* Committed, or from Resolving or Replacing to RolledBack, and when the    *)
(* run is over every row is Committed or RolledBack.  Stated as the claim   *)
(* has it; the code violates the second half on a row whose FullDate is     *)
(* NaT, which stays Resolving while the rows after it stay Pending.         *)
C13_RecordStateMachine ==
    [][OnlyRecordTransitions /\ (RunOver' => AllRowsFinal')]_vars

---------------------------------------------------------------------------
OtherGrain(f) == GrainOf(f) # GrainOfKeys(keys)

(* C14. The DELETE of a row removes the fact rows of that row's grain, all *)
(* of them and no other; no other statement removes a fact row; and when    *)
(* the row has committed or rolled back, every fact row of another grain    *)
(* that was committed before it is still there, unchanged.                  *)
C14_DeleteOnlyOwnGrain ==
    [][ /\ (pc = "delete" /\ pc' = "insert") =>
              /\ \A f \in Range(db.fact_Metrics) :
                    OtherGrain(f) => f \in Range(db'.fact_Metrics)
              /\ \A f \in Range(db'.fact_Metrics) :
                    OtherGrain(f) /\ f \in Range(db.fact_Metrics)
              /\ Len(db'.fact_Metrics) <= Len(db.fact_Metrics)
        /\ pc \notin {"delete", "except"} =>
              Kept(db.fact_Metrics, db'.fact_Metrics)
        /\ (pc \in {"commit", "except"} /\ pc' = "loop") =>
              \A f \in Range(txStart.fact_Metrics) :
                  OtherGrain(f) => /\ f \in Range(db'.fact_Metrics)
                                   /\ f \in Range(committed'.fact_Metrics) ]_vars

\* The DELETE ran for a grain that differs from a stored fact row only in
\* the demographic key, and that row is still there.
C14_Witness ==
    /\ pc = "insert"
    /\ Len(db.fact_Metrics) = 1
    /\ db.fact_Metrics[1].DateID = keys.date_id
    /\ db.fact_Metrics[1].AdID = keys.ad_id
    /\ db.fact_Metrics[1].PlacementID = keys.placement_id
    /\ db.fact_Metrics[1].DemographicID # keys.demographic_id

---------------------------------------------------------------------------
(* C15. In every committed state each fact row's ad set key is the AdSetID *)
(* of its dim_Ads row, its campaign key the CampaignID of that dim_AdSets   *)
(* row, and its client key the ClientID of that dim_Campaigns row.  Stated  *)
(* as the claim has it; the code violates it when an ad, ad set or campaign *)
(* already stored reappears under another parent.                           *)
C15_DenormalizedKeysFromAncestry ==
    \A f \in Range(committed.fact_Metrics) :
        /\ WithKey(committed.dim_Ads, "AdID", f.AdID) # {}
        /\ \A a \in WithKey(committed.dim_Ads, "AdID", f.AdID) :
              /\ f.AdSetID = a.AdSetID
              /\ \A s \in WithKey(committed.dim_AdSets, "AdSetID", a.AdSetID) :
                    /\ f.CampaignID = s.CampaignID
                    /\ \A c \in WithKey(committed.dim_Campaigns, "CampaignID", s.CampaignID) :
                          f.ClientID = c.ClientID

---------------------------------------------------------------------------
\* process_row's key locals in the order of their assignments.
KeyOrder == <<"date_id", "client_id", "campaign_id", "adset_id", "ad_id",
              "demographic_id", "placement_id">>

\* The position of a statement in the loop body.
StatementNo(s) == CHOOSE n \in 1..Len(Statements) : Statements[n] = s

\* Exactly the locals assigned before statement number n are bound.
BoundBefore(n) == \A j \in 1..Len(KeyOrder) : (keys[KeyOrder[j]] # 0) <=> (j < n)

\* The last row of a table after a step that appended one.
Appended(t) == db'[t][Len(db'[t])]

Grew(t) == Len(db'[t]) = Len(db[t]) + 1

(* C16. The statements of a row run in the order date, client, campaign,   *)
(* ad set, ad, demographic, placement, DELETE, INSERT, commit: at each      *)
(* statement exactly the keys of the statements before it are bound, so the *)
(* DELETE runs with all seven; a campaign, ad set or ad that is created     *)
(* carries the parent key bound in this row; the fact table is not touched  *)
(* while keys are being resolved; and after a failure no later statement    *)
(* of the row runs: the next step is the rollback.                          *)
C16_FixedStatementOrder ==
    [][ /\ \A n \in 1..Len(Statements) : pc = Statements[n] =>
              /\ BoundBefore(n)
              /\ pc' \in {"except", "crashed",
                          IF n < Len(Statements) THEN Statements[n + 1] ELSE "loop"}
        /\ pc = "except" =>
              /\ BoundBefore(StatementNo(err))
              /\ pc' = "loop" /\ keys' = keys
              /\ db' = committed /\ committed' = committed
        /\ pc \in ResolvingAt => db'.fact_Metrics = db.fact_Metrics
        /\ (pc = "campaign" /\ Grew("dim_Campaigns")) =>
              /\ keys.client_id # 0
              /\ Appended("dim_Campaigns").ClientID = keys.client_id
        /\ (pc = "adset" /\ Grew("dim_AdSets")) =>
              /\ keys.campaign_id # 0
              /\ Appended("dim_AdSets").CampaignID = keys.campaign_id
        /\ (pc = "ad" /\ Grew("dim_Ads")) =>
              /\ keys.adset_id # 0
              /\ Appended("dim_Ads").AdSetID = keys.adset_id ]_vars

\* Row 2, after row 1 was rolled back, has created its client, campaign, ad
\* set and ad, each under the key bound just before, and stands at the DELETE
\* with seven keys.
C16_Witness ==
    /\ pc = "delete" /\ idx = 2
    /\ committed = EmptyStore
    /\ BoundBefore(StatementNo("delete"))
    /\ keys.client_id = 2
    /\ \E c \in Range(db.dim_Campaigns) :
          c.CampaignID = keys.campaign_id /\ c.ClientID = keys.client_id
    /\ \E s \in Range(db.dim_AdSets) :
          s.AdSetID = keys.adset_id /\ s.CampaignID = keys.campaign_id
    /\ \E a \in Range(db.dim_Ads) :
          a.AdID = keys.ad_id /\ a.AdSetID = keys.adset_id

---------------------------------------------------------------------------
\* The table each resolving statement works on.
TableOf ==
    [date |-> "dim_Date", client |-> "dim_Clients", campaign |-> "dim_Campaigns",
     adset |-> "dim_AdSets", ad |-> "dim_Ads", demographic |-> "dim_Demographics",
     placement |-> "dim_Placements"]

(* C17. Over the committed states of a run: a committed dimension row keeps *)
(* its natural key and its surrogate key; a surrogate key that is committed *)
(* for one natural key is on no row, committed or pending, with another     *)
(* natural key; and the key each committed input row resolved for a natural *)
(* key is, in every later committed state, the key of a stored row with     *)
(* that natural key.                                                        *)
C17_SurrogateKeysStable ==
    [][ \A at \in DOMAIN TableOf :
          LET t   == TableOf[at]
              col == KeyColumn[at]
          IN  /\ \A r \in Range(committed[t]) : r \in Range(committed'[t])
              /\ \A r \in Range(committed[t]) \cup Range(committed'[t]) :
                    \A r2 \in Range(committed'[t]) \cup Range(db'[t]) :
                        r2[col] = r[col] => NaturalKey(t, r2) = NaturalKey(t, r)
              /\ \A i \in 1..Len(log') :
                    log'[i].status = "Committed" =>
                        \E r \in Range(committed'[t]) :
                            /\ r[col] = log'[i].keys[KeyLocal[at]]
                            /\ NaturalKey(t, r) = NaturalKey(t, log'[i].row) ]_vars

\* Two rows committed: the client, seen twice, resolved to one key both
\* times, and the two ad sets hold two keys.
C17_Witness ==
    /\ Len(log) = 2 /\ CommittedRows = {1, 2}
    /\ log[1].row.AccountFBID = log[2].row.AccountFBID
    /\ log[1].keys.client_id = log[2].keys.client_id
    /\ log[1].row.AdSetFBID # log[2].row.AdSetFBID
    /\ log[1].keys.adset_id # log[2].keys.adset_id
    /\ Len(committed.dim_Clients) = 1 /\ Len(committed.dim_AdSets) = 2

---------------------------------------------------------------------------
(* Two runs of the script against one database.  Each run has its own      *)
(* connection, opened with autocommit off (line 265), so each has its own   *)
(* open transaction; the table, the IDENTITY counter and the committed rows *)
(* are shared.  The statements of get_or_create_client are separate round   *)
(* trips to the server, and the other run's statements can fall between     *)
(* them.  In this specification pc, row, keys, err and db hold one value    *)
(* per run, db[l] being the rows run l has inserted and not yet committed,  *)
(* and log is the sequence of statements the server has executed.           *)
Loaders == {1, 2}

\* What a statement of run l reads: committed rows and its own pending ones.
View(l, t) == committed[t] \o db[l][t]

\* The rows in the table, whoever inserted them, committed or not.
Heap(t) == committed[t] \o db[1][t] \o db[2][t]

\* lines 40-46: SELECT ClientID FROM dim_Clients WHERE AccountFBID = ?
client_select(tbl, account_fbid) ==
    LET Match(r) == r.AccountFBID = account_fbid
    IN  SelectSeq(tbl, Match)

\* An INSERT that looks again, atomically, before it inserts:
\* INSERT ... WHERE NOT EXISTS (SELECT ... WITH (UPDLOCK, HOLDLOCK)).
client_insert_if_absent(tbl, nextid, account_fbid, name) ==
    IF client_select(tbl, account_fbid) # <<>>
    THEN Found(tbl, client_select(tbl, account_fbid)[1].ClientID)
    ELSE Inserted(tbl, [ClientID |-> nextid, AccountFBID |-> account_fbid,
                        ClientName |-> name], nextid)

\* lines 47-52: INSERT INTO dim_Clients ... OUTPUT INSERTED.ClientID
client_insert(tbl, nextid, account_fbid, name) ==
    Inserted(tbl, [ClientID |-> nextid, AccountFBID |-> account_fbid,
                   ClientName |-> name], nextid)

\* The rows a statement added to the table.
Added(before, after) == SubSeq(after, Len(before) + 1, Len(after))

Executed(l, op, found) == Append(log, [loader |-> l, op |-> op, found |-> found])

InitRace ==
    /\ pc = [l \in Loaders |-> "loop"]
    /\ row = [l \in Loaders |-> NoRow]
    /\ keys = [l \in Loaders |-> NoKeys]
    /\ err = [l \in Loaders |-> None]
    /\ db = [l \in Loaders |-> EmptyStore]
    /\ committed = EmptyStore
    /\ ident = [t \in IdentityTables |-> 0]
    /\ total = 1                       \* each run's file holds one row
    /\ idx = [l \in Loaders |-> 0]
    /\ txStart = EmptyStore
    /\ log = <<>>
    /\ out = <<>>

\* line 282: the run takes its row.
RaceNextRow(l) ==
    /\ pc[l] = "loop"
    /\ idx[l] < total
    /\ \E r \in Rows : row' = [row EXCEPT ![l] = r]
    /\ idx' = [idx EXCEPT ![l] = @ + 1]
    /\ pc' = [pc EXCEPT ![l] = "client_select"]
    /\ UNCHANGED <<total, keys, err, db, committed, ident, txStart, log, out>>

\* lines 40-46
RaceSelect(l) ==
    /\ pc[l] = "client_select"
    /\ LET hit == client_select(View(l, "dim_Clients"), row[l].AccountFBID)
       IN  /\ keys' = IF hit # <<>>
                      THEN [keys EXCEPT ![l].client_id = hit[1].ClientID]
                      ELSE keys
           /\ pc' = [pc EXCEPT ![l] = IF hit # <<>> THEN "commit" ELSE "client_insert"]
           /\ log' = Executed(l, "select", hit # <<>>)
    /\ UNCHANGED <<total, idx, row, err, db, committed, ident, txStart, out>>

\* lines 47-52
RaceInsert(l) ==
    /\ pc[l] = "client_insert"
    /\ LET res == client_insert(Heap("dim_Clients"), ident.dim_Clients + 1,
                                row[l].AccountFBID, row[l].ClientName)
       IN  /\ db' = [db EXCEPT ![l].dim_Clients =
                                   @ \o Added(Heap("dim_Clients"), res.tbl)]
           /\ keys' = [keys EXCEPT ![l].client_id = res.id]
           /\ ident' = IF res.inserted
                       THEN [ident EXCEPT !.dim_Clients = @ + 1]
                       ELSE ident
           /\ log' = Executed(l, "insert", ~res.inserted)
    /\ pc' = [pc EXCEPT ![l] = "commit"]
    /\ UNCHANGED <<total, idx, row, err, committed, txStart, out>>

\* line 286
RaceCommit(l) ==
    /\ pc[l] = "commit"
    /\ committed' = [t \in Tables |-> committed[t] \o db[l][t]]
    /\ db' = [db EXCEPT ![l] = EmptyStore]
    /\ pc' = [pc EXCEPT ![l] = "loop"]
    /\ log' = Executed(l, "commit", FALSE)
    /\ UNCHANGED <<total, idx, row, keys, err, ident, txStart, out>>

\* A statement of the run raises pyodbc.Error.
RaceRaisePyodbcError(l) ==
    /\ pc[l] \in {"client_select", "client_insert", "commit"}
    /\ err' = [err EXCEPT ![l] = pc[l]]
    /\ pc' = [pc EXCEPT ![l] = "except"]
    /\ UNCHANGED <<total, idx, row, keys, db, committed, ident, txStart, log, out>>

\* lines 287-289
RaceExceptHandler(l) ==
    /\ pc[l] = "except"
    /\ db' = [db EXCEPT ![l] = EmptyStore]
    /\ out' = Append(out, [msg |-> "Error en fila", idx |-> idx[l],
                          err |-> pyodbc_Error(err[l]).args])
    /\ pc' = [pc EXCEPT ![l] = "loop"]
    /\ log' = Executed(l, "rollback", FALSE)
    /\ UNCHANGED <<total, idx, row, keys, err, committed, ident, txStart>>

NextRace ==
    \E l \in Loaders :
        \/ RaceNextRow(l)
        \/ RaceSelect(l)
        \/ RaceInsert(l)
        \/ RaceCommit(l)
        \/ RaceRaisePyodbcError(l)
        \/ RaceExceptHandler(l)

SpecRace == InitRace /\ [][NextRace]_vars

\* The statements of a kind that the server executed for a run, by position.
Events(l, op) == {i \in 1..Len(log) : log[i].loader = l /\ log[i].op = op}

\* The run's lookup found no row.
Missed(l) == \E i \in Events(l, "select") : ~log[i].found

\* Both runs resolved the same account, each lookup missed, and both runs
\* committed.
BothMissedAndCommitted ==
    /\ \A l \in Loaders : Missed(l) /\ Events(l, "commit") # {}
    /\ row[1].AccountFBID = row[2].AccountFBID

\* The stored rows of an account.
ClientRows(account_fbid) ==
    {i \in 1..Len(committed.dim_Clients) :
        committed.dim_Clients[i].AccountFBID = account_fbid}

(* C18. Two runs resolve the same unseen account at the same time.  Once    *)
(* both lookups have missed, nothing in the code stops either INSERT: when  *)
(* both runs have committed, dim_Clients holds two rows for the account,    *)
(* with two surrogate keys, one returned to each run.  The witness is the   *)
(* interleaving: it is reachable.                                           *)
C18_RaceLeavesTwoRows ==
    BothMissedAndCommitted =>
        /\ Cardinality(ClientRows(row[1].AccountFBID)) = 2
        /\ keys[1].client_id # keys[2].client_id
        /\ \A l \in Loaders :
              \E i \in ClientRows(row[l].AccountFBID) :
                  committed.dim_Clients[i].ClientID = keys[l].client_id

\* Both SELECTs ran before either INSERT, both INSERTs ran, both runs
\* committed, and the table holds two rows for the one account.
C18_Witness ==
    /\ BothMissedAndCommitted
    /\ \A l, m \in Loaders :
          \A i \in Events(l, "select") : \A j \in Events(m, "insert") : i < j
    /\ \A l \in Loaders : Events(l, "insert") # {}
    /\ Len(committed.dim_Clients) = 2
    /\ committed.dim_Clients[1].AccountFBID = committed.dim_Clients[2].AccountFBID

---------------------------------------------------------------------------
(* C19. When a statement that resolves a dimension fails, the error the     *)
(* loop of main receives is a dimension-resolution error of its own kind:   *)
(* it differs from the error of a failed DELETE or INSERT of the fact row,  *)
(* and it names the dimension and the natural key that was looked up.       *)
(* Stated as the claim has it; the code lets the driver's pyodbc.Error      *)
(* through as it is.                                                        *)
C19_DimensionErrorIdentified ==
    (pc = "except" /\ err \in ResolvingAt) =>
        LET e == pyodbc_Error(err)
        IN  /\ e # pyodbc_Error("delete")
            /\ e # pyodbc_Error("insert")
            /\ "dimension" \in DOMAIN e
            /\ "natural_key" \in DOMAIN e
            /\ e.dimension = err
            /\ e.natural_key = NaturalKey(TableOf[err], row)

---------------------------------------------------------------------------
\* The natural key that the statement passes to its get-or-create has a
\* None component.
HasNull(at, r) == \E n \in 1..Len(NaturalKey(TableOf[at], r)) :
                     NaturalKey(TableOf[at], r)[n] = None

NullKeyed == {"demographic", "placement"}

\* Two input rows name the same date and ad, and the same natural key with a
\* None in it for the dimension.
SameNullKey(at, r1, r2) ==
    /\ HasNull(at, r1)
    /\ NaturalKey(TableOf[at], r1) = NaturalKey(TableOf[at], r2)
    /\ r1.FullDate = r2.FullDate /\ r1.AdFBID = r2.AdFBID

(* C20. For dim_Demographics and dim_Placements, a call whose natural key   *)
(* has a None component finds no row, whatever the table holds: it appends  *)
(* a row and returns a surrogate key no stored row has, even when a row     *)
(* with that same natural key is stored.  Two committed input rows with     *)
(* the same such natural key, date and ad hold different keys for the       *)
(* dimension and leave a fact row each.                                     *)
C20_NullKeyAlwaysInserts ==
    [][ \A at \in NullKeyed :
          LET t == TableOf[at]
          IN  /\ (pc = at /\ HasNull(at, row) /\ pc' \notin {"except", "crashed"}) =>
                    /\ Hits(at) = {}
                    /\ Grew(t)
                    /\ NaturalKey(t, Appended(t)) = NaturalKey(t, row)
                    /\ Appended(t)[KeyColumn[at]] = keys'[KeyLocal[at]]
                    /\ WithKey(db[t], KeyColumn[at], keys'[KeyLocal[at]]) = {}
              /\ \A i, j \in CommittedRows :
                    (i < j /\ SameNullKey(at, log[i].row, log[j].row)) =>
                        /\ log[i].keys[KeyLocal[at]] # log[j].keys[KeyLocal[at]]
                        /\ \E f, g \in Range(committed.fact_Metrics) :
                              /\ f # g
                              /\ Carries(f, log[i].keys, log[i].row)
                              /\ Carries(g, log[j].keys, log[j].row) ]_vars

\* The same row with no age bracket was committed twice: dim_Demographics
\* holds its natural key twice and the fact table holds two rows for it.
C20_Witness ==
    /\ CommittedRows = {1, 2}
    /\ log[1].row = log[2].row
    /\ HasNull("demographic", log[1].row)
    /\ Len(committed.dim_Demographics) = 2
    /\ NaturalKey("dim_Demographics", committed.dim_Demographics[1])
         = NaturalKey("dim_Demographics", committed.dim_Demographics[2])
    /\ Len(committed.fact_Metrics) = 2
    /\ pc = "done"

====
